---- MODULE Spec2Model ----
(***************************************************************************)
(* Model of the per-frame simulation core of Toh_hoh (src/src/gameplay.rs, *)
(* src/src/coords.rs): Cooldown, Player, Enemy, Projectile, EventSystem    *)
(* and World, with the four World operations process_events,               *)
(* update_entities, update_projectiles and check_end.                      *)
(*                                                                         *)
(* Units.  Lengths are integers counting tenths of a pixel, so that every  *)
(* length the code computes (0.5 px per frame, 0.6 * 48 px, ...) is an     *)
(* integer.  Times are integers counting DT_60 (1/60 s): an Instant is a   *)
(* number of DT_60 since the clock's origin, a Duration a number of DT_60, *)
(* and the code's factor `dt / DT_60` is the integer dt itself.  The       *)
(* arithmetic is exact; f32 rounding is not modelled, and a normalised     *)
(* vector is kept in thousandths, truncated.                               *)
(***************************************************************************)
EXTENDS Integers, Sequences, FiniteSets, TLC

VARIABLES
    now,          \* the monotonic clock read by Instant::now()
    player,       \* World.player
    projectiles,  \* World.projectiles
    enemies,      \* World.enemies
    rect,         \* World.rect
    score,        \* World.score
    event_list,   \* World.event_list (the EventSystem and its pending list)
    inputs,       \* World.inputs, the snapshot of this frame
    dt,           \* the dt handed to update_entities / update_projectiles
    phase,        \* the driver's position in the frame
    driver,       \* the driver's repertoire: clock steps, dts, snapshots
    control_flow, \* the ControlFlow check_end writes to
    reported,     \* what the last check_end printed
    none_due,     \* how this build evaluates `Instant::now() >= None`
    panicked,     \* a Vec::remove went out of range
    log,          \* ghost: what the last operation did, step by step
    seen,         \* ghost: per enemy, the distinct states it has been in
    hits,         \* ghost: the clock readings at which player.hp went down
    fired,        \* ghost: the ids of the events that fired, in order
    cd,           \* harness: a Cooldown on its own
    cd_ready,     \* harness: the last answer of cd.is_over()
    col           \* harness: arguments and results of collide_rectangle

vars == <<now, player, projectiles, enemies, rect, score, event_list, inputs,
          dt, phase, driver, control_flow, reported, none_due, panicked, log, seen, hits,
          fired, cd, cd_ready, col>>

worldVars == <<player, projectiles, enemies, rect, score, event_list, inputs,
               dt, phase, driver, control_flow, reported, none_due, panicked, log, seen,
               hits, fired>>

harnessVars == <<cd, cd_ready, col>>

----------------------------------------------------------------------------
(* Option::None of an Option<Instant>; an Instant is never negative. *)
None == -1

(* gameplay.rs:11; the unit of time. *)
DT_60 == 1

Pt(x, y) == [x |-> x, y |-> y]

Dim(w, h) == [w |-> w, h |-> h]

Abs(n) == IF n < 0 THEN -n ELSE n

(* Integer division truncating toward zero. *)
Quot(a, b) == IF a >= 0 THEN a \div b ELSE -((-a) \div b)

RECURSIVE IsqrtIn(_, _, _)
IsqrtIn(n, lo, hi) ==
    IF lo >= hi THEN lo
    ELSE LET mid == (lo + hi + 1) \div 2
         IN  IF mid * mid <= n THEN IsqrtIn(n, mid, hi)
             ELSE IsqrtIn(n, lo, mid - 1)

(* 46340 is the largest integer whose square a 32-bit integer holds. *)
Isqrt(n) == IsqrtIn(n, 0, IF n < 46340 THEN n ELSE 46340)

(* cgmath normalize(): the vector over its length, here in thousandths.   *)
(* A zero vector has no direction (NaN components in f32).                *)
Normalize(v) ==
    LET len == Isqrt(v.x * v.x + v.y * v.y)
    IN  IF len = 0 THEN [x |-> 0, y |-> 0, nan |-> TRUE]
        ELSE [x |-> Quot(v.x * 1000, len), y |-> Quot(v.y * 1000, len),
              nan |-> FALSE]

----------------------------------------------------------------------------
(* Cooldown *)

with_duration(value) == [last_emit |-> None, cooldown |-> value]

with_secs(frames) == with_duration(frames)

(* Instant::elapsed(&last) at clock reading t. *)
elapsed(last, t) == t - last

is_over_strict(c, t) ==
    IF c.last_emit # None THEN elapsed(c.last_emit, t) > c.cooldown ELSE TRUE

is_over(c, t) ==
    IF c.last_emit # None THEN elapsed(c.last_emit, t) >= c.cooldown ELSE TRUE

emit(c, t) == [c EXCEPT !.last_emit = t]

----------------------------------------------------------------------------
(* coords.rs *)

into_rect(dims) == [top_left |-> Pt(0, 0), dims |-> dims]

left(r) == r.top_left.x

top(r) == r.top_left.y

right_excluded(r) == r.top_left.x + r.dims.w

bottom_excluded(r) == r.top_left.y + r.dims.h

contains(r, coords) ==
    /\ left(r) <= coords.x
    /\ coords.x < right_excluded(r)
    /\ top(r) <= coords.y
    /\ coords.y < bottom_excluded(r)

----------------------------------------------------------------------------
(* collide_rectangle.  The code compares pos -/+ size / 2.; both sides are *)
(* doubled here so that an odd size needs no half.                         *)
collide_rectangle(pos_a, pos_b, size_a, size_b) ==
    /\ \/ /\ 2 * pos_a.x - size_a.w <= 2 * pos_b.x - size_b.w
          /\ 2 * pos_b.x - size_b.w <= 2 * pos_a.x + size_a.w
       \/ /\ 2 * pos_a.x - size_a.w <= 2 * pos_b.x + size_b.w
          /\ 2 * pos_b.x + size_b.w <= 2 * pos_a.x + size_a.w
    /\ \/ /\ 2 * pos_a.y - size_a.h <= 2 * pos_b.y - size_b.h
          /\ 2 * pos_b.y - size_b.h <= 2 * pos_a.y + size_a.h
       \/ /\ 2 * pos_a.y - size_a.h <= 2 * pos_b.y + size_b.h
          /\ 2 * pos_b.y + size_b.h <= 2 * pos_a.y + size_a.h

----------------------------------------------------------------------------
(* Player *)

PlayerStartX == 750
PlayerStartY == 2000
PlayerSize == 480
PlayerHitSize == 100
PlayerHp == 5
HpCdFrames == 120
PlayerProjCdFrames == 15
PlayerSpeed == 50

Player_new ==
    [pos      |-> Pt(PlayerStartX, PlayerStartY),
     vel      |-> Pt(0, 0),
     size     |-> Dim(PlayerSize, PlayerSize),
     size_hit |-> Dim(PlayerHitSize, PlayerHitSize),
     hp       |-> PlayerHp,
     hp_cd    |-> with_secs(HpCdFrames),
     proj_cd  |-> with_secs(PlayerProjCdFrames)]

hp_cd_over(p, t) == is_over(p.hp_cd, t)

(* The velocity the four direction flags add up to. *)
InputVel(in) ==
    Pt((IF in.right THEN 1 ELSE 0) - (IF in.left THEN 1 ELSE 0),
       (IF in.down THEN 1 ELSE 0) - (IF in.up THEN 1 ELSE 0))

(* An axis takes the new coordinate only when it is within [0, limit]. *)
Axis(old, new, limit) == IF 0 <= new /\ new <= limit THEN new ELSE old

Player_update_pos(p, in, bounds, d) ==
    LET v == InputVel(in)
        new_pos == Pt(p.pos.x + PlayerSpeed * v.x * d,
                      p.pos.y + PlayerSpeed * v.y * d)
    IN  IF v # Pt(0, 0)
        THEN [p EXCEPT !.vel = v,
                       !.pos = Pt(Axis(p.pos.x, new_pos.x, bounds.dims.w),
                                  Axis(p.pos.y, new_pos.y, bounds.dims.h))]
        ELSE [p EXCEPT !.vel = v]

----------------------------------------------------------------------------
(* Enemy *)

BasicSize == 480
SniperWidth == 320
SniperHeight == 480
BasicProjCdFrames == 25
SniperProjCdFrames == 40
BasicMaxHp == 15
SniperMaxHp == 8
SPEED == 5
SniperFactor == 5

max_hp(variant) == IF variant = "Basic" THEN BasicMaxHp ELSE SniperMaxHp

(* id and nhit are ghost fields: the id of the event that spawned the      *)
(* enemy and the number of hits it has taken.  f is the payload of         *)
(* EnemyState::OnScreen; nan says the position is NaN.                     *)
Enemy_spawn(id, pos, variant) ==
    [id      |-> id,
     nhit    |-> 0,
     pos     |-> pos,
     nan     |-> FALSE,
     vel     |-> Pt(0, 0),
     size    |-> IF variant = "Basic" THEN Dim(BasicSize, BasicSize)
                 ELSE Dim(SniperWidth, SniperHeight),
     hp      |-> max_hp(variant),
     proj_cd |-> IF variant = "Basic" THEN with_secs(BasicProjCdFrames)
                 ELSE with_secs(SniperProjCdFrames),
     variant |-> variant,
     state   |-> "NotSpawned",
     f       |-> "none"]

enemy_func(e) == e.variant

(* bounds.contains(enemy.pos); a NaN coordinate fails every comparison. *)
EnemyInside(e, bounds) == ~e.nan /\ contains(bounds, e.pos)

(* The closure enemy_func returned, applied: it sets the velocity. *)
ApplyFunc(e, bounds) ==
    IF e.f = "Basic"
    THEN [e EXCEPT !.vel =
            Pt(IF ~e.nan /\ 2 * e.pos.x <= bounds.dims.w THEN -SPEED
               ELSE IF ~e.nan /\ 2 * e.pos.x > bounds.dims.w THEN SPEED
               ELSE 0,
               SPEED)]
    ELSE LET to_mid == Normalize(Pt(bounds.dims.w - 2 * e.pos.x,
                                    0 - 2 * e.pos.y))
         IN  IF e.nan \/ to_mid.nan
             THEN [e EXCEPT !.nan = TRUE]
             ELSE [e EXCEPT !.vel =
                     Pt(Quot(to_mid.y * SPEED * SniperFactor, 1000),
                        Quot((0 - to_mid.x) * SPEED * SniperFactor, 1000))]

Move(e, d) ==
    IF e.nan THEN e
    ELSE [e EXCEPT !.pos = Pt(e.pos.x + e.vel.x * d, e.pos.y + e.vel.y * d)]

(* The match on self.state, before the common "Update pos". *)
EnemyStepSkip(e, bounds, d) ==
    IF e.state = "NotSpawned"
    THEN LET m == Move([e EXCEPT !.vel = Pt(0, SPEED)], d)
         IN  IF EnemyInside(m, bounds)
             THEN [m EXCEPT !.state = "OffScreen"]
             ELSE m
    ELSE IF e.state = "OnScreen"
    THEN LET g == ApplyFunc(e, bounds)
         IN  IF ~EnemyInside(g, bounds)
             THEN [g EXCEPT !.state = "OffScreen"]
             ELSE g
    ELSE e

EnemyStep(e, bounds, d) ==
    IF e.state = "NotSpawned"
    THEN LET m == Move([e EXCEPT !.vel = Pt(0, SPEED)], d)
         IN  IF EnemyInside(m, bounds)
             THEN [m EXCEPT !.state = "OnScreen", !.f = enemy_func(m)]
             ELSE m
    ELSE IF e.state = "OnScreen"
    THEN LET g == ApplyFunc(e, bounds)
         IN  IF ~EnemyInside(g, bounds)
             THEN [g EXCEPT !.state = "OffScreen"]
             ELSE g
    ELSE e

Enemy_update_pos(e, bounds, d) ==
    LET s == EnemyStep(e, bounds, d)
    IN  IF s.nan \/ s.vel # Pt(0, 0) THEN Move(s, d) ELSE s

----------------------------------------------------------------------------
(* Projectile *)

ProjSpeed == 100
ProjBox == 100
ShotOffsetTenths == 6

Projectile(pos, vel, variant) == [pos |-> pos, vel |-> vel, variant |-> variant]

PlayerShot(p) ==
    Projectile(Pt(p.pos.x, p.pos.y - p.size.h \div 2), Pt(0, 0 - ProjSpeed),
               "PlayerShoot")

EnemyShot(e, p) ==
    LET pos == Pt(e.pos.x, e.pos.y + (e.size.h * ShotOffsetTenths) \div 10)
    IN  IF e.variant = "Basic"
        THEN Projectile(pos, Pt(0, ProjSpeed), "Basic")
        ELSE LET delta == Pt(p.pos.x - pos.x, p.pos.y - pos.y)
                 n == Normalize(delta)
                 to_player == IF delta # Pt(0, 0) THEN Pt(n.x, n.y)
                              ELSE Pt(0, 0)
             IN  Projectile(pos, Pt(Quot(ProjSpeed * to_player.x, 1000),
                                    Quot(ProjSpeed * to_player.y, 1000)),
                            "Aimed")

----------------------------------------------------------------------------
(* Event, EventSystem.  An Option<(u32, Duration)> is a sequence of length *)
(* at most one; an Option<Instant> is None or the Instant.                 *)

(* crate::game::LEVEL_REF, the id of the level-start marker. *)
LEVEL_REF == 0

SpawnEnemy(pos, variant) == [kind |-> "SpawnEnemy", pos |-> pos, variant |-> variant]

SpawnBoss(pos) == [kind |-> "_SpawnBoss", pos |-> pos, variant |-> "none"]

Event(id, time, ref_evt, variant) ==
    [id |-> id, time |-> time, ref_evt |-> ref_evt, variant |-> variant]

Ref(id, offset) == <<[id |-> id, off |-> offset]>>

(* One turn of the loop of EventSystem::new. *)
ResolveNoOffset(evt, t) ==
    IF evt.ref_evt # <<>> /\ evt.ref_evt[1].id = LEVEL_REF
    THEN [evt EXCEPT !.time = t, !.ref_evt = <<>>]
    ELSE evt

Resolve(evt, t) ==
    IF evt.ref_evt # <<>> /\ evt.ref_evt[1].id = LEVEL_REF
    THEN [evt EXCEPT !.time = t + evt.ref_evt[1].off, !.ref_evt = <<>>]
    ELSE evt

EventSystem_new(evt_list, t) ==
    [list      |-> [i \in 1..Len(evt_list) |-> Resolve(evt_list[i], t)],
     history   |-> <<>>,
     latest_id |-> 0]

----------------------------------------------------------------------------
(* Vec::remove(i) for each i of to_remove, last first.  Indices count from *)
(* 1 here.  An index past the end panics.                                  *)

RemoveAt(v, i) == SubSeq(v, 1, i - 1) \o SubSeq(v, i + 1, Len(v))

RECURSIVE RemoveRev(_, _)
RemoveRev(v, to_remove) ==
    IF to_remove = <<>> THEN [vec |-> v, panic |-> FALSE]
    ELSE LET i == to_remove[Len(to_remove)]
         IN  IF i > Len(v) THEN [vec |-> v, panic |-> TRUE]
             ELSE RemoveRev(RemoveAt(v, i),
                            SubSeq(to_remove, 1, Len(to_remove) - 1))

Ids(v) == [i \in 1..Len(v) |-> v[i].id]

----------------------------------------------------------------------------
(* World *)

(* `Instant::now() >= e.time` with e.time an Option<Instant>.  With a time *)
(* set it is the comparison of the two Instants.  With None the source     *)
(* does not say: none_due is what the build makes of it.                   *)
Due(e, t) == IF e.time = None THEN none_due ELSE t >= e.time

(* The scan of process_events from index i on: the enemies pushed and the  *)
(* indices collected.                                                      *)
RECURSIVE ScanEvents(_, _, _, _, _)
ScanEvents(list, i, t, pushed, to_remove) ==
    IF i > Len(list) THEN [pushed |-> pushed, to_remove |-> to_remove]
    ELSE LET e == list[i]
         IN  IF Due(e, t)
             THEN ScanEvents(list, i + 1, t,
                    IF e.variant.kind = "SpawnEnemy"
                    THEN Append(pushed,
                            Enemy_spawn(e.id, e.variant.pos, e.variant.variant))
                    ELSE pushed,
                    Append(to_remove, i))
             ELSE ScanEvents(list, i + 1, t, pushed, to_remove)

(* The removal pass of process_events. *)
RemoveEventsForward(list, to_remove) ==
    IF to_remove = <<>> THEN [vec |-> list, panic |-> FALSE]
    ELSE [vec |-> SubSeq(list, Len(to_remove) + 1, Len(list)), panic |-> FALSE]

RemoveEvents(list, to_remove) == RemoveRev(list, to_remove)

(* update_entities: the player's part. *)
PlayerShoots(p, in, t) == in.shoot /\ is_over(p.proj_cd, t)

(* update_entities: the loop over the enemies from index i on.  st holds   *)
(* the enemies, the projectiles, to_remove and the ghost list trans of     *)
(* (id, state before, state after, inside the bounds before and after).    *)

(* One turn of the loop: e0 is the enemy before its update_pos, e1 after,  *)
(* fire says whether it shoots.                                            *)
EnemyTurn(st, i, e0, e1, fire, p, bounds, t) ==
    [enemies   |-> [st.enemies EXCEPT
                      ![i] = IF fire
                             THEN [e1 EXCEPT !.proj_cd = emit(e1.proj_cd, t)]
                             ELSE e1],
     projs     |-> IF fire THEN Append(st.projs, EnemyShot(e1, p))
                   ELSE st.projs,
     to_remove |-> IF e1.state = "OffScreen" THEN Append(st.to_remove, i)
                   ELSE st.to_remove,
     trans     |-> Append(st.trans,
                     [id |-> e0.id, from |-> e0.state, to |-> e1.state,
                      inside0 |-> EnemyInside(e0, bounds),
                      inside |-> EnemyInside(e1, bounds)])]

EnemyFires(e1, bounds, t) == is_over(e1.proj_cd, t) /\ EnemyInside(e1, bounds)

EnemyUpdated(st, i, e1, p, bounds, t) ==
    EnemyTurn(st, i, st.enemies[i], e1, EnemyFires(e1, bounds, t), p, bounds, t)

RECURSIVE EnemyLoop(_, _, _, _, _, _)
EnemyLoop(st, i, p, bounds, d, t) ==
    IF i > Len(st.enemies) THEN st
    ELSE EnemyLoop(
            EnemyUpdated(st, i, Enemy_update_pos(st.enemies[i], bounds, d),
                         p, bounds, t),
            i + 1, p, bounds, d, t)

RemoveLastOnly(v, to_remove) ==
    IF to_remove = <<>> THEN RemoveRev(v, <<>>)
    ELSE RemoveRev(v, <<to_remove[Len(to_remove)]>>)

(* The removal pass of update_entities. *)
RemoveEnemies(v, to_remove) == RemoveRev(v, to_remove)

(* The ghost `seen` after the transitions trans. *)
RECURSIVE SeenAfter(_, _, _)
SeenAfter(sn, trans, i) ==
    IF i > Len(trans) THEN sn
    ELSE LET tr == trans[i]
             old == sn[tr.id]
         IN  SeenAfter(
                IF old # <<>> /\ old[Len(old)] = tr.to THEN sn
                ELSE [sn EXCEPT ![tr.id] = Append(old, tr.to)],
                trans, i + 1)

----------------------------------------------------------------------------
(* update_projectiles *)

Damage == 2
KillScore == 100

ProjDims == Dim(ProjBox, ProjBox)

MoveProj(proj, d) ==
    [proj EXCEPT !.pos = Pt(proj.pos.x + proj.vel.x * d, proj.pos.y + proj.vel.y * d)]

HitsEnemy(e, proj) ==
    /\ ~e.nan
    /\ collide_rectangle(e.pos, proj.pos, e.size, ProjDims)
    /\ proj.variant = "PlayerShoot"

(* The kill: self.enemies.remove(j); self.score += 100. *)
OnKillFirst(es, sc, j) == [enemies |-> RemoveAt(es, 1), score |-> sc + KillScore]

OnKill(es, sc, j) == [enemies |-> RemoveAt(es, j), score |-> sc + KillScore]

HitsPlayerNoCooldown(p, proj, t) ==
    /\ collide_rectangle(p.pos, proj.pos, p.size_hit, ProjDims)
    /\ proj.variant # "PlayerShoot"

HitsPlayer(p, proj, t) ==
    /\ is_over(p.hp_cd, t)
    /\ collide_rectangle(p.pos, proj.pos, p.size_hit, ProjDims)
    /\ proj.variant # "PlayerShoot"

HurtByThree(es, j) == [es EXCEPT ![j].hp = @ - 3, ![j].nhit = @ + 1]

(* enemy.hp -= 2. on enemy j. *)
Hurt(es, j) == [es EXCEPT ![j].hp = @ - Damage, ![j].nhit = @ + 1]

(* Projectile i has hit enemy j: to_remove.push(i), and the enemies and    *)
(* the score as the hit leaves them.  The entry of hitlog is a ghost.      *)
AfterHit(st, i, j, es_after, score_after) ==
    [st EXCEPT
       !.to_remove = Append(@, i),
       !.hitlog = Append(@, [kind |-> "enemy", proj |-> i,
                             id |-> st.enemies[j].id, j |-> j,
                             variant |-> st.enemies[j].variant,
                             k |-> st.enemies[j].nhit + 1,
                             hp0 |-> st.enemies[j].hp,
                             hp1 |-> st.enemies[j].hp - Damage,
                             before |-> Ids(st.enemies),
                             after |-> Ids(es_after),
                             score0 |-> st.score,
                             score1 |-> score_after]),
       !.enemies = es_after,
       !.score = score_after]

Wounded(st, i, j) == AfterHit(st, i, j, Hurt(st.enemies, j), st.score)

KilledWith(st, i, j, k) == AfterHit(st, i, j, k.enemies, k.score)

Killed(st, i, j) ==
    KilledWith(st, i, j, OnKill(Hurt(st.enemies, j), st.score, j))

(* The inner loop: projectile i against the enemies from index j on; a     *)
(* kill breaks out of it.                                                  *)
RECURSIVE AgainstEnemies(_, _, _)
AgainstEnemies(st, i, j) ==
    IF j > Len(st.enemies) THEN st
    ELSE IF HitsEnemy(st.enemies[j], st.projs[i])
         THEN IF st.enemies[j].hp - Damage <= 0
              THEN Killed(st, i, j)
              ELSE AgainstEnemies(Wounded(st, i, j), i, j + 1)
         ELSE AgainstEnemies(st, i, j + 1)

HpAfterHeal(p) == p.hp + 1

(* if player.hp > 0 { player.hp -= 1 } *)
HpAfter(p) == IF p.hp > 0 THEN p.hp - 1 ELSE p.hp

(* Projectile i has hit the player, whose hp becomes hp1.  The entry of    *)
(* hitlog and hits are ghosts.                                             *)
PlayerHurt(st, i, hp1, t) ==
    [st EXCEPT
       !.player.hp = hp1,
       !.hitlog = Append(@, [kind |-> "player", proj |-> i,
                             hp0 |-> st.player.hp, hp1 |-> hp1,
                             marked |-> hp1 # 0, pushed |-> hp1 # 0,
                             t |-> t]),
       !.hits = IF hp1 < st.player.hp THEN Append(@, t) ELSE @]

(* to_remove.push(i); player.hp_cd.last_emit = Some(Instant::now()). *)
PlayerMarked(st, i, t) ==
    [st EXCEPT !.to_remove = Append(@, i), !.player.hp_cd = emit(@, t)]

(* proj.pos += proj.vel * dt / DT_60 on projectile i. *)
ProjMoved(st, i, d) == [st EXCEPT !.projs[i] = MoveProj(@, d)]

RECURSIVE ProjLoop(_, _, _, _, _)

(* Projectile i after the inner loop: the player's part, then the next     *)
(* projectile; hp = 0 breaks out of the outer loop.                        *)
ProjAgainstPlayer(st, i, bounds, d, t) ==
    IF HitsPlayer(st.player, st.projs[i], t)
    THEN IF HpAfter(st.player) = 0
         THEN PlayerHurt(st, i, 0, t)
         ELSE ProjLoop(PlayerMarked(PlayerHurt(st, i, HpAfter(st.player), t),
                                    i, t),
                       i + 1, bounds, d, t)
    ELSE ProjLoop(st, i + 1, bounds, d, t)

(* Projectile i, already moved: out of the bounds it is collected and the  *)
(* loop continues with the next one.                                       *)
ProjTurn(st, i, bounds, d, t) ==
    IF ~contains(bounds, st.projs[i].pos)
    THEN ProjLoop([st EXCEPT !.to_remove = Append(@, i)], i + 1, bounds, d, t)
    ELSE ProjAgainstPlayer(AgainstEnemies(st, i, 1), i, bounds, d, t)

(* The outer loop, from projectile i on. *)
ProjLoop(st, i, bounds, d, t) ==
    IF i > Len(st.projs) THEN st
    ELSE ProjTurn(ProjMoved(st, i, d), i, bounds, d, t)

(* The removal pass of update_projectiles. *)
RemoveProjectiles(v, to_remove) == RemoveRev(v, to_remove)

----------------------------------------------------------------------------
(* check_end *)

Dead(p) == p.hp = 0

WonEither(es, evs) == es = <<>> \/ evs.list = <<>>

Won(es, evs) == es = <<>> /\ evs.list = <<>>

----------------------------------------------------------------------------
(* The bounded inputs: the levels a session is started with and, for each, *)
(* what its driver hands in: the clock steps between two frames, the dt of *)
(* a frame, the input snapshots, and how long it keeps going.              *)

StartTime == 60
DuelHorizon == 540
SmallHorizon == 240
PairHorizon == 300
SniperHorizon == 600
WalkHorizon == 360
FallHorizon == 600
SkipHorizon == 750

In(l, r, u, d, s) == [left |-> l, right |-> r, up |-> u, down |-> d, shoot |-> s]

NoInput == In(FALSE, FALSE, FALSE, FALSE, FALSE)

Shoot == In(FALSE, FALSE, FALSE, FALSE, TRUE)

(* A Basic enemy spawned right above the player's start, in a window that  *)
(* holds the start; the driver is paused (dt = 0) and time alone passes.   *)
LevelDuel ==
    [dims  |-> Dim(1500, 2500),
     evts  |-> <<Event(1, None, Ref(LEVEL_REF, 0),
                       SpawnEnemy(Pt(750, 1712), "Basic"))>>,
     steps |-> {60, 120},
     dts   |-> {0},
     ins   |-> {NoInput, Shoot},
     until |-> StartTime + DuelHorizon]

(* A window smaller than the player's start position, with enemies coming  *)
(* in from above, a boss placeholder, a preset time and a dependency on    *)
(* another event.                                                          *)
LevelSmall ==
    [dims  |-> Dim(500, 500),
     evts  |-> <<Event(1, None, Ref(LEVEL_REF, 0),
                       SpawnEnemy(Pt(50, -100), "Basic")),
                 Event(2, None, Ref(LEVEL_REF, 90),
                       SpawnEnemy(Pt(400, -300), "Sniper")),
                 Event(3, None, Ref(1, 60),
                       SpawnEnemy(Pt(300, -150), "Basic")),
                 Event(4, StartTime + 120, <<>>, SpawnBoss(Pt(0, 0))),
                 Event(5, None, Ref(LEVEL_REF, 0),
                       SpawnEnemy(Pt(300, 100), "Sniper"))>>,
     steps |-> {60, 120},
     dts   |-> {0, 20},
     ins   |-> {NoInput, Shoot,
                In(FALSE, FALSE, TRUE, FALSE, FALSE),
                In(FALSE, FALSE, FALSE, TRUE, TRUE),
                In(TRUE, FALSE, FALSE, FALSE, FALSE),
                In(TRUE, TRUE, FALSE, FALSE, FALSE)},
     until |-> StartTime + SmallHorizon]

(* A Basic and a Sniper enemy spawned on the same spot above the player's  *)
(* start; the driver is paused.                                            *)
LevelPair ==
    [dims  |-> Dim(1500, 2600),
     evts  |-> <<Event(1, None, Ref(LEVEL_REF, 0),
                       SpawnEnemy(Pt(750, 1712), "Basic")),
                 Event(2, None, Ref(LEVEL_REF, 0),
                       SpawnEnemy(Pt(750, 1712), "Sniper"))>>,
     steps |-> {60, 120},
     dts   |-> {0},
     ins   |-> {NoInput, Shoot},
     until |-> StartTime + PairHorizon]

(* A Sniper enemy spawned right above the player's start; the driver is    *)
(* paused.                                                                 *)
LevelSniper ==
    [dims  |-> Dim(1500, 2400),
     evts  |-> <<Event(1, None, Ref(LEVEL_REF, 0),
                       SpawnEnemy(Pt(750, 1712), "Sniper"))>>,
     steps |-> {60, 120},
     dts   |-> {0},
     ins   |-> {NoInput, Shoot},
     until |-> StartTime + SniperHorizon]

(* A window that holds the player's start, nothing spawning before the     *)
(* driver stops, and the player walking about.                             *)
LevelWalk ==
    [dims  |-> Dim(2000, 2600),
     evts  |-> <<Event(1, None, Ref(LEVEL_REF, StartTime + WalkHorizon),
                       SpawnEnemy(Pt(1000, -100), "Basic"))>>,
     steps |-> {120},
     dts   |-> {0, 20},
     ins   |-> {NoInput, Shoot,
                In(TRUE, FALSE, FALSE, FALSE, FALSE),
                In(FALSE, TRUE, FALSE, FALSE, FALSE),
                In(FALSE, FALSE, TRUE, FALSE, FALSE),
                In(FALSE, FALSE, FALSE, TRUE, FALSE),
                In(TRUE, TRUE, FALSE, FALSE, FALSE),
                In(FALSE, TRUE, TRUE, FALSE, TRUE)},
     until |-> StartTime + WalkHorizon]

(* A Basic enemy coming down from above the top edge of a small window,    *)
(* with frames of dt > 0.                                                  *)
LevelFall ==
    [dims  |-> Dim(600, 700),
     evts  |-> <<Event(1, None, Ref(LEVEL_REF, 0),
                       SpawnEnemy(Pt(200, -150), "Basic"))>>,
     steps |-> {60},
     dts   |-> {10, 20},
     ins   |-> {NoInput, Shoot},
     until |-> StartTime + FallHorizon]

(* The same enemy above a window of 50 x 60 px, with frames 2.5 s apart    *)
(* whose dt is the 2.5 s.                                                  *)
LevelSkip ==
    [dims  |-> Dim(500, 600),
     evts  |-> <<Event(1, None, Ref(LEVEL_REF, 0),
                       SpawnEnemy(Pt(200, -150), "Basic"))>>,
     steps |-> {150},
     dts   |-> {150},
     ins   |-> {NoInput, Shoot},
     until |-> StartTime + SkipHorizon]

Levels ==
    {LevelDuel, LevelSmall, LevelPair, LevelSniper, LevelWalk, LevelFall,
     LevelSkip}

EventIds(evts) == {evts[i].id : i \in 1..Len(evts)}

Unresolved(evts) ==
    \E i \in 1..Len(evts) :
        evts[i].time = None
        /\ (evts[i].ref_evt = <<>> \/ evts[i].ref_evt[1].id # LEVEL_REF)

----------------------------------------------------------------------------
(* The session: World::start, then frame after frame the four operations   *)
(* in the order of the driver, until check_end sets ControlFlow::Exit.     *)

HarnessIdle ==
    /\ cd = with_duration(0)
    /\ cd_ready = TRUE
    /\ col = [set |-> FALSE]

(* World::start(lv.dims, lv.evts) at clock reading t. *)
World_start(lv, t) ==
    /\ player = Player_new
    /\ projectiles = <<>>
    /\ enemies = <<>>
    /\ rect = into_rect(lv.dims)
    /\ score = 0
    /\ event_list = EventSystem_new(lv.evts, t)

Init ==
    /\ now = StartTime
    /\ \E lv \in Levels :
        /\ World_start(lv, now)
        /\ seen = [id \in EventIds(lv.evts) |-> <<>>]
        /\ none_due \in (IF Unresolved(lv.evts) THEN BOOLEAN ELSE {FALSE})
        /\ driver = [steps |-> lv.steps, dts |-> lv.dts, ins |-> lv.ins,
                     until |-> lv.until]
    /\ inputs = NoInput
    /\ dt = 0
    /\ phase = "idle"
    /\ control_flow = "Poll"
    /\ reported = [lose |-> FALSE, win |-> FALSE]
    /\ panicked = FALSE
    /\ log = [op |-> "start"]
    /\ hits = <<>>
    /\ fired = <<>>
    /\ HarnessIdle

Running == control_flow = "Poll" /\ ~panicked

(* The driver: the clock has moved on, a new snapshot and dt are in. *)
NextFrame ==
    /\ Running
    /\ phase = "idle"
    /\ \E step \in driver.steps :
        /\ now + step <= driver.until
        /\ now' = now + step
    /\ inputs' \in driver.ins
    /\ dt' \in driver.dts
    /\ phase' = "events"
    /\ UNCHANGED <<player, projectiles, enemies, rect, score, event_list,
                   driver, control_flow, reported, none_due, panicked, log,
                   seen, hits, fired>>
    /\ UNCHANGED harnessVars

process_events ==
    /\ Running
    /\ phase = "events"
    /\ LET sc == ScanEvents(event_list.list, 1, now, <<>>, <<>>)
           rm == RemoveEvents(event_list.list, sc.to_remove)
       IN  /\ enemies' = enemies \o sc.pushed
           /\ event_list' = [event_list EXCEPT !.list = rm.vec]
           /\ panicked' = rm.panic
           /\ fired' = fired \o [k \in 1..Len(sc.to_remove) |->
                                    event_list.list[sc.to_remove[k]].id]
           /\ seen' = [id \in DOMAIN seen |->
                         IF \E k \in 1..Len(sc.pushed) : sc.pushed[k].id = id
                         THEN Append(seen[id], "NotSpawned") ELSE seen[id]]
           /\ log' = [op |-> "process_events", t |-> now,
                      pending0 |-> event_list.list,
                      enemies0 |-> enemies,
                      due |-> sc.to_remove]
    /\ phase' = "entities"
    /\ UNCHANGED <<now, player, projectiles, rect, score, inputs, dt, driver,
                   control_flow, reported, none_due, hits>>
    /\ UNCHANGED harnessVars

(* The player's part of update_entities: update_pos, then the shot. *)
PlayerTurn(p1, in, t) ==
    IF PlayerShoots(p1, in, t)
    THEN [player |-> [p1 EXCEPT !.proj_cd = emit(@, t)],
          shot   |-> <<PlayerShot(p1)>>]
    ELSE [player |-> p1, shot |-> <<>>]

update_entities ==
    /\ Running
    /\ phase = "entities"
    /\ \E pt \in {PlayerTurn(Player_update_pos(player, inputs, rect, dt),
                              inputs, now)} :
       \E st \in {EnemyLoop([enemies |-> enemies,
                              projs |-> projectiles \o pt.shot,
                              to_remove |-> <<>>, trans |-> <<>>],
                             1, pt.player, rect, dt, now)} :
       \E rm \in {RemoveEnemies(st.enemies, st.to_remove)} :
           /\ player' = pt.player
           /\ projectiles' = st.projs
           /\ enemies' = rm.vec
           /\ panicked' = rm.panic
           /\ seen' = SeenAfter(seen, st.trans, 1)
           /\ log' = [op |-> "update_entities", trans |-> st.trans,
                      enemies0 |-> Ids(enemies), player0 |-> player]
    /\ phase' = "projectiles"
    /\ UNCHANGED <<now, rect, score, event_list, inputs, dt, driver,
                   control_flow, reported, none_due, hits, fired>>
    /\ UNCHANGED harnessVars

update_projectiles ==
    /\ Running
    /\ phase = "projectiles"
    /\ \E st \in {ProjLoop([projs |-> projectiles, enemies |-> enemies,
                             player |-> player, score |-> score,
                             to_remove |-> <<>>, hitlog |-> <<>>,
                             hits |-> hits],
                            1, rect, dt, now)} :
       \E rm \in {RemoveProjectiles(st.projs, st.to_remove)} :
           /\ player' = st.player
           /\ enemies' = st.enemies
           /\ score' = st.score
           /\ projectiles' = rm.vec
           /\ panicked' = rm.panic
           /\ hits' = st.hits
           /\ log' = [op |-> "update_projectiles", hitlog |-> st.hitlog,
                      to_remove |-> st.to_remove, hp0 |-> player.hp,
                      enemies0 |-> Ids(enemies), score0 |-> score,
                      projs0 |-> projectiles, moved |-> st.projs]
    /\ phase' = "end"
    /\ UNCHANGED <<now, rect, event_list, inputs, dt, driver, control_flow,
                   reported, none_due, seen, fired>>
    /\ UNCHANGED harnessVars

check_end ==
    /\ Running
    /\ phase = "end"
    /\ reported' = [lose |-> Dead(player), win |-> Won(enemies, event_list)]
    /\ control_flow' = IF Dead(player) \/ Won(enemies, event_list)
                       THEN "Exit" ELSE control_flow
    /\ log' = [op |-> "check_end"]
    /\ phase' = "idle"
    /\ UNCHANGED <<now, player, projectiles, enemies, rect, score, event_list,
                   inputs, dt, driver, none_due, panicked, seen, hits, fired>>
    /\ UNCHANGED harnessVars

Next ==
    \/ NextFrame
    \/ process_events
    \/ update_entities
    \/ update_projectiles
    \/ check_end

Spec == Init /\ [][Next]_vars

----------------------------------------------------------------------------
(* The sessions in which every event is resolved at construction and       *)
(* spawns a Basic enemy above the top edge, x within the bounds, and every *)
(* frame has dt > 0.  The driver keeps delivering frames and runs the four *)
(* operations of each: a step that can be taken is taken.                  *)

LiveLevels == {LevelFall, LevelSkip}

InitLive == Init /\ \E lv \in LiveLevels : rect = into_rect(lv.dims)

SpecLive == InitLive /\ [][Next]_vars /\ WF_vars(Next)

----------------------------------------------------------------------------
(* A Cooldown on its own: constructed with any duration up to MaxDuration, *)
(* then emit() and is_over() as the clock moves on.  The world is left as  *)
(* World::start(LevelDuel) made it.                                        *)

MaxDuration == 3
MaxWait == 8

WorldIdle ==
    /\ World_start(LevelDuel, StartTime)
    /\ seen = [id \in EventIds(LevelDuel.evts) |-> <<>>]
    /\ none_due = FALSE
    /\ driver = [steps |-> {}, dts |-> {}, ins |-> {}, until |-> StartTime]
    /\ inputs = NoInput
    /\ dt = 0
    /\ phase = "idle"
    /\ control_flow = "Poll"
    /\ reported = [lose |-> FALSE, win |-> FALSE]
    /\ panicked = FALSE
    /\ log = [op |-> "start"]
    /\ hits = <<>>
    /\ fired = <<>>

InitCooldown ==
    /\ now = StartTime
    /\ WorldIdle
    /\ \E value \in 0..MaxDuration : cd = with_duration(value)
    /\ cd_ready = is_over(cd, now)
    /\ col = [set |-> FALSE]

Cooldown_emit ==
    /\ cd' = emit(cd, now)
    /\ cd_ready' = is_over(cd', now)
    /\ UNCHANGED <<now, col>>
    /\ UNCHANGED worldVars

Cooldown_wait ==
    /\ \E step \in 1..2 :
        /\ now + step <= StartTime + MaxWait
        /\ now' = now + step
    /\ cd_ready' = is_over(cd, now')
    /\ UNCHANGED <<cd, col>>
    /\ UNCHANGED worldVars

NextCooldown == Cooldown_emit \/ Cooldown_wait

SpecCooldown == InitCooldown /\ [][NextCooldown]_vars

----------------------------------------------------------------------------
(* collide_rectangle on its own: two centred boxes drawn from a small      *)
(* grid, tested in both orders.                                            *)

MaxCoord == 3
MaxSize == 4

InitCollide ==
    /\ now = StartTime
    /\ WorldIdle
    /\ cd = with_duration(0)
    /\ cd_ready = TRUE
    /\ \E bx, by \in 0..MaxCoord, aw, ah, bw, bh \in 1..MaxSize :
        col = [set |-> FALSE,
               pos_a |-> Pt(0, 0), pos_b |-> Pt(bx, by),
               size_a |-> Dim(aw, ah), size_b |-> Dim(bw, bh),
               ab |-> FALSE, ba |-> FALSE]

Collide ==
    /\ ~col.set
    /\ col' = [col EXCEPT
                 !.set = TRUE,
                 !.ab = collide_rectangle(col.pos_a, col.pos_b,
                                          col.size_a, col.size_b),
                 !.ba = collide_rectangle(col.pos_b, col.pos_a,
                                          col.size_b, col.size_a)]
    /\ UNCHANGED <<now, cd, cd_ready>>
    /\ UNCHANGED worldVars

NextCollide == Collide

SpecCollide == InitCollide /\ [][NextCollide]_vars

----------------------------------------------------------------------------
(* Properties *)

AfterCheckEnd == log.op = "check_end"

AfterProcessEvents == log.op = "process_events"

AfterUpdateEntities == log.op = "update_entities"

AfterUpdateProjectiles == log.op = "update_projectiles"

(* C1: at every check_end where player hp is 0 the outcome is Lose, and    *)
(* Win is not reported, whatever the enemies and the pending events are.   *)
C1_LossTakesPriority ==
    (AfterCheckEnd /\ player.hp = 0) => (reported.lose /\ ~reported.win)

(* C2: check_end reports Win only with the enemies and the pending list    *)
(* both empty; with hp > 0 and one of them non-empty it reports nothing    *)
(* and the control flow stays as it was.                                   *)
C2_WinOnlyWhenBothEmpty ==
    AfterCheckEnd =>
        /\ reported.win => (Len(enemies) = 0 /\ Len(event_list.list) = 0)
        /\ (player.hp > 0 /\ (Len(enemies) > 0 \/ Len(event_list.list) > 0))
              => (~reported.win /\ ~reported.lose /\ control_flow = "Poll")

C2_Witness ==
    AfterCheckEnd /\ reported.win /\ player.hp > 0 /\ score > 0

(* The events of a list whose fire time is set and has come at t. *)
DueAt(list, t) == {i \in 1..Len(list) : list[i].time # None /\ list[i].time <= t}

Occurrences(q, x) == Cardinality({k \in 1..Len(q) : q[k] = x})

(* C3: a pending SpawnEnemy event with a fire time set fires on the first  *)
(* process_events call at or after that time, exactly once: one enemy is   *)
(* added for it, it leaves the pending list, the other pending events stay *)
(* in their order, and it never adds an enemy again, however many events   *)
(* are due in the same call.                                               *)
C3_FiresExactlyOnce ==
    /\ \A k \in 1..Len(fired) : Occurrences(fired, fired[k]) = 1
    /\ \A k \in 1..Len(enemies) : Occurrences(Ids(enemies), enemies[k].id) = 1
    /\ \A id \in DOMAIN seen : Occurrences(seen[id], "NotSpawned") <= 1
    /\ AfterProcessEvents =>
        LET before == log.pending0
            left_ids == Ids(event_list.list)
            gone == {i \in 1..Len(before) :
                        \A k \in 1..Len(left_ids) : left_ids[k] # before[i].id}
            spawned == SelectSeq(before,
                          LAMBDA e : /\ e.variant.kind = "SpawnEnemy"
                                     /\ \E i \in gone : before[i].id = e.id)
        IN  /\ DueAt(before, log.t) \subseteq gone
            /\ \A i \in gone : before[i].time = None \/ before[i].time <= log.t
            /\ event_list.list =
                  SelectSeq(before, LAMBDA e : \E k \in 1..Len(left_ids) :
                                                   left_ids[k] = e.id)
            /\ Len(enemies) = Len(log.enemies0) + Len(spawned)
            /\ SubSeq(enemies, 1, Len(log.enemies0)) = log.enemies0
            /\ \A k \in 1..Len(spawned) :
                  LET e == enemies[Len(log.enemies0) + k]
                  IN  /\ e.id = spawned[k].id
                      /\ e.pos = spawned[k].variant.pos
                      /\ e.variant = spawned[k].variant.variant
                      /\ e.state = "NotSpawned"
            /\ \A i \in DueAt(before, log.t) :
                  Occurrences(fired, before[i].id) = 1

(* Two events due in one call with a pending one between them, after an    *)
(* earlier call had fired others.                                          *)
C3_Witness ==
    /\ AfterProcessEvents
    /\ Cardinality(DueAt(log.pending0, log.t)) >= 2
    /\ Len(fired) > Len(log.due)
    /\ Len(event_list.list) > 0
    /\ \E i, j, k \in 1..Len(log.pending0) :
          /\ i < j /\ j < k
          /\ {i, k} \subseteq DueAt(log.pending0, log.t)
          /\ j \notin DueAt(log.pending0, log.t)

(* The level the session was started with. *)
TheLevel == CHOOSE lv \in Levels : into_rect(lv.dims) = rect

LevelStartEvents ==
    {i \in 1..Len(TheLevel.evts) :
        /\ TheLevel.evts[i].ref_evt # <<>>
        /\ TheLevel.evts[i].ref_evt[1].id = LEVEL_REF}

Pending(id) == \E k \in 1..Len(event_list.list) : event_list.list[k].id = id

HasFired(id) == \E k \in 1..Len(fired) : fired[k] = id

(* C4: an event given to the construction with a dependency on the         *)
(* level-start marker and offset d has, from then on, fire time            *)
(* construction time + d and no dependency; it spawns nothing on a         *)
(* process_events call before that time, and spawns its enemy on the first *)
(* call at or after it.                                                    *)
C4_LevelStartOffset ==
    \A i \in LevelStartEvents :
        LET given == TheLevel.evts[i]
            at == StartTime + given.ref_evt[1].off
        IN  /\ \A k \in 1..Len(event_list.list) :
                  event_list.list[k].id = given.id =>
                      /\ event_list.list[k].time = at
                      /\ event_list.list[k].ref_evt = <<>>
            /\ (Pending(given.id) /\ ~HasFired(given.id))
                  \/ (~Pending(given.id) /\ HasFired(given.id))
            /\ Pending(given.id) => seen[given.id] = <<>>
            /\ (HasFired(given.id) /\ given.variant.kind = "SpawnEnemy")
                  => seen[given.id] # <<>>
            /\ AfterProcessEvents =>
                  /\ log.t < at => Pending(given.id)
                  /\ log.t >= at => HasFired(given.id)

(* The Sniper of LevelSmall, due 90 after the start, fires in a call that  *)
(* is not the first.                                                       *)
C4_Witness ==
    /\ AfterProcessEvents
    /\ \E i \in LevelStartEvents :
          LET given == TheLevel.evts[i]
          IN  /\ given.ref_evt[1].off > 0
              /\ given.variant.kind = "SpawnEnemy"
              /\ \E k \in 1..Len(log.pending0) : log.pending0[k].id = given.id
              /\ Len(fired) > Len(log.due)
              /\ ~Pending(given.id)
              /\ enemies[Len(enemies)].id = given.id

EnemyHits(hitlog) == SelectSeq(hitlog, LAMBDA h : h.kind = "enemy")

(* v without its j-th element. *)
Without(v, j) ==
    [m \in 1..(Len(v) - 1) |-> IF m < j THEN v[m] ELSE v[m + 1]]

(* C5: in update_projectiles, a hit that brings an enemy's hp to <= 0      *)
(* removes exactly that enemy (the others stay, in order) and adds exactly *)
(* 100 to the score; a hit that leaves hp > 0 removes no enemy and leaves  *)
(* the score alone; nothing else in the call changes either.               *)
C5_KillRemovesOneAndScores ==
    AfterUpdateProjectiles =>
        LET eh == EnemyHits(log.hitlog)
        IN  /\ \A k \in 1..Len(eh) :
                  LET h == eh[k]
                  IN  /\ h.before[h.j] = h.id
                      /\ h.before = (IF k = 1 THEN log.enemies0
                                     ELSE eh[k - 1].after)
                      /\ h.score0 = (IF k = 1 THEN log.score0
                                     ELSE eh[k - 1].score1)
                      /\ h.hp1 <= 0 =>
                            /\ h.after = Without(h.before, h.j)
                            /\ h.score1 = h.score0 + 100
                      /\ h.hp1 > 0 =>
                            /\ h.after = h.before
                            /\ h.score1 = h.score0
            /\ Ids(enemies) = (IF Len(eh) = 0 THEN log.enemies0
                               ELSE eh[Len(eh)].after)
            /\ score = (IF Len(eh) = 0 THEN log.score0
                        ELSE eh[Len(eh)].score1)

(* A kill of the second of two enemies, after a hit that was not lethal. *)
C5_Witness ==
    /\ AfterUpdateProjectiles
    /\ \E k \in 1..Len(log.hitlog) :
          /\ log.hitlog[k].kind = "enemy"
          /\ log.hitlog[k].hp1 <= 0
          /\ log.hitlog[k].j > 1
          /\ Len(log.hitlog[k].after) > 0
    /\ \E k \in 1..Len(log.hitlog) :
          /\ log.hitlog[k].kind = "enemy"
          /\ log.hitlog[k].hp1 > 0

(* The enemy-sourced projectiles whose box overlaps the player's hit-box,  *)
(* by the distance of the centres on each axis.                            *)
OnPlayer(projs, p) ==
    {k \in 1..Len(projs) :
        /\ projs[k].variant # "PlayerShoot"
        /\ 2 * Abs(projs[k].pos.x - p.pos.x) <= ProjBox + p.size_hit.w
        /\ 2 * Abs(projs[k].pos.y - p.pos.y) <= ProjBox + p.size_hit.h}

(* C6: however many enemy projectiles overlap the player's hit-box, in one *)
(* tick or over several, player hp goes down by at most 1 per damage       *)
(* cooldown: two decrements are at least the cooldown's duration apart.    *)
C6_OneHitPerCooldown ==
    /\ \A k \in 1..(Len(hits) - 1) : hits[k + 1] - hits[k] >= HpCdFrames
    /\ AfterUpdateProjectiles => log.hp0 - player.hp <= 1

(* Several enemy projectiles on the player in one call, one decrement, and *)
(* an earlier decrement a cooldown before.                                 *)
C6_Witness ==
    /\ AfterUpdateProjectiles
    /\ Cardinality(OnPlayer(log.moved, player)) >= 2
    /\ log.hp0 - player.hp = 1
    /\ player.hp > 0
    /\ Len(hits) >= 2

(* C7: for every bounds rectangle the world is started with, every input   *)
(* sequence and every dt >= 0, the player position after World::start and  *)
(* after every Player update is within [0, width] x [0, height].           *)
C7_PlayerWithinBounds ==
    /\ 0 <= player.pos.x /\ player.pos.x <= rect.dims.w
    /\ 0 <= player.pos.y /\ player.pos.y <= rect.dims.h

StateOrder == <<"NotSpawned", "OnScreen", "OffScreen">>

IsPrefix(q, r) == Len(q) <= Len(r) /\ \A k \in 1..Len(q) : q[k] = r[k]

(* C8: the distinct states an enemy takes are a prefix of NotSpawned,      *)
(* OnScreen, OffScreen: an update moves it only from NotSpawned to         *)
(* OnScreen or from OnScreen to OffScreen, never backward, never from      *)
(* NotSpawned to OffScreen, and never out of OffScreen.                    *)
C8_EnemyStateForward ==
    /\ \A id \in DOMAIN seen : IsPrefix(seen[id], StateOrder)
    /\ AfterUpdateEntities =>
          \A k \in 1..Len(log.trans) :
              <<log.trans[k].from, log.trans[k].to>> \in
                  {<<"NotSpawned", "NotSpawned">>, <<"NotSpawned", "OnScreen">>,
                   <<"OnScreen", "OnScreen">>, <<"OnScreen", "OffScreen">>,
                   <<"OffScreen", "OffScreen">>}
    /\ \A k \in 1..Len(enemies) :
          /\ seen[enemies[k].id] # <<>>
          /\ enemies[k].state = seen[enemies[k].id][Len(seen[enemies[k].id])]

(* An enemy that went through all three states, while another stayed. *)
C8_Witness ==
    /\ AfterUpdateEntities
    /\ \E id \in DOMAIN seen : seen[id] = StateOrder
    /\ \E k \in 1..Len(log.trans) :
          log.trans[k].from = "OnScreen" /\ log.trans[k].to = "OnScreen"

(* C9: collide_rectangle(A, B, sizeA, sizeB) equals                        *)
(* collide_rectangle(B, A, sizeB, sizeA) for all centres and sizes.        *)
C9_CollideSymmetric == col.set => (col.ab = col.ba)

CdElapsed == now - cd.last_emit

(* C10, as claimed: for any duration D, D = 0 included, a fresh Cooldown   *)
(* is ready; right after emit(), with no time elapsed, it is not ready; it *)
(* stays not ready while the elapsed time is < D and is ready again once   *)
(* it is >= D.                                                             *)
C10_CooldownAnyDuration ==
    /\ cd.last_emit = None => cd_ready
    /\ cd.last_emit # None =>
          /\ CdElapsed = 0 => ~cd_ready
          /\ CdElapsed < cd.cooldown => ~cd_ready
          /\ CdElapsed >= cd.cooldown => cd_ready

(* C10, amended: the same for every duration D > 0; with D = 0 the         *)
(* Cooldown is ready at all times, right after emit() too.                 *)
C10_CooldownPositiveDuration ==
    /\ cd.last_emit = None => cd_ready
    /\ cd.last_emit # None =>
          /\ (CdElapsed = 0 /\ cd.cooldown > 0) => ~cd_ready
          /\ CdElapsed < cd.cooldown => ~cd_ready
          /\ CdElapsed >= cd.cooldown => cd_ready

(* A Cooldown of positive duration, marked, and ready again exactly when   *)
(* its duration has elapsed.                                               *)
C10_Witness ==
    /\ cd.cooldown > 0
    /\ cd.last_emit # None
    /\ CdElapsed = cd.cooldown
    /\ cd_ready

(* The enemy spawned by event id was spawned above the top edge, with x    *)
(* within the bounds.                                                      *)
SpawnedAbove(id) ==
    \E k \in 1..Len(TheLevel.evts) :
        LET e == TheLevel.evts[k]
        IN  /\ e.id = id
            /\ e.variant.pos.y < top(rect)
            /\ left(rect) <= e.variant.pos.x
            /\ e.variant.pos.x < right_excluded(rect)

(* C11: an enemy spawned above the top edge and ticked with dt > 0 is      *)
(* never NotSpawned at the end of a tick while its position is inside the  *)
(* bounds (it becomes OnScreen in the first tick at whose end it is        *)
(* inside), and an OnScreen enemy whose position is inside the bounds      *)
(* stays OnScreen.                                                         *)
C11_OnScreenWhenInside ==
    (AfterUpdateEntities /\ dt > 0) =>
        \A k \in 1..Len(log.trans) :
            LET tr == log.trans[k]
            IN  SpawnedAbove(tr.id) =>
                  /\ ~(tr.to = "NotSpawned" /\ tr.inside)
                  /\ (tr.from = "OnScreen" /\ tr.inside0) => tr.to = "OnScreen"

(* C12: a Basic enemy starts at hp 15 and every PlayerShot hit takes       *)
(* exactly 2: after its k-th hit its hp is 15 - 2k; for k = 1..7 it stays  *)
(* in World.enemies and the score is unchanged, and on the 8th hit, and on *)
(* no other, it is removed and the score rises by 100.                     *)
C12_BasicHpLadder ==
    /\ \A m \in 1..Len(enemies) :
          enemies[m].variant = "Basic" =>
              /\ enemies[m].nhit \in 0..7
              /\ enemies[m].hp = 15 - 2 * enemies[m].nhit
    /\ AfterUpdateProjectiles =>
          \A n \in 1..Len(log.hitlog) :
              LET h == log.hitlog[n]
              IN  (h.kind = "enemy" /\ h.variant = "Basic") =>
                    /\ h.k \in 1..8
                    /\ h.hp0 = 15 - 2 * (h.k - 1)
                    /\ h.hp1 = 15 - 2 * h.k
                    /\ h.k <= 7 => /\ h.after = h.before
                                   /\ h.score1 = h.score0
                    /\ h.k = 8 => /\ h.after = Without(h.before, h.j)
                                  /\ h.score1 = h.score0 + 100

(* The 8th hit on a Basic enemy. *)
C12_Witness ==
    /\ AfterUpdateProjectiles
    /\ \E n \in 1..Len(log.hitlog) :
          /\ log.hitlog[n].kind = "enemy"
          /\ log.hitlog[n].variant = "Basic"
          /\ log.hitlog[n].k = 8
          /\ score = log.score0 + 100

(* C13: player hp never increases and never goes below 0: every step       *)
(* leaves hp' <= hp, hp stays within 0..5, a decrement takes exactly 1 and *)
(* is never executed at hp = 0, and once hp is 0 it stays 0.               *)
C13_HpMonotone ==
    /\ [](/\ player.hp \in 0..5
          /\ AfterUpdateProjectiles =>
                /\ player.hp <= log.hp0
                /\ \A n \in 1..Len(log.hitlog) :
                      log.hitlog[n].kind = "player" =>
                          /\ log.hitlog[n].hp0 > 0
                          /\ log.hitlog[n].hp1 = log.hitlog[n].hp0 - 1)
    /\ [][/\ player'.hp <= player.hp
           /\ player'.hp >= 0
           /\ player.hp = 0 => player'.hp = 0]_vars

(* The hit that takes hp from 1 to 0, after four earlier decrements. *)
C13_Witness ==
    /\ AfterUpdateProjectiles
    /\ player.hp = 0
    /\ log.hp0 = 1
    /\ Len(hits) = 5

(* The events of the level whose dependency does not target the            *)
(* level-start marker and that have no fire time.                          *)
UnresolvedEvents ==
    {TheLevel.evts[k].id : k \in
        {n \in 1..Len(TheLevel.evts) :
            /\ TheLevel.evts[n].time = None
            /\ TheLevel.evts[n].ref_evt # <<>>
            /\ TheLevel.evts[n].ref_evt[1].id # LEVEL_REF}}

C15_OneProjectileOneEnemy ==
    AfterUpdateProjectiles =>
        \A m, n \in 1..Len(log.hitlog) :
            (/\ log.hitlog[m].kind = "enemy"
             /\ log.hitlog[n].kind = "enemy"
             /\ log.hitlog[m].proj = log.hitlog[n].proj) => m = n

(* The elements of v from index i on whose index is not in marked. *)
RECURSIVE Unmarked(_, _, _)
Unmarked(v, marked, i) ==
    IF i > Len(v) THEN <<>>
    ELSE IF i \in marked THEN Unmarked(v, marked, i + 1)
    ELSE <<v[i]>> \o Unmarked(v, marked, i + 1)

(* C16: update_projectiles removes only marked projectiles: every index is *)
(* marked at most once, the removal pass does not index past the end, and  *)
(* the projectiles left are the moved ones that were not marked, in order  *)
(* (an unmarked projectile is still there after the call).                 *)
C16_RemovesOnlyMarked ==
    AfterUpdateProjectiles =>
        /\ \A m, n \in 1..Len(log.to_remove) :
              log.to_remove[m] = log.to_remove[n] => m = n
        /\ ~panicked
        /\ projectiles =
              Unmarked(log.moved,
                       {log.to_remove[m] : m \in 1..Len(log.to_remove)}, 1)

(* C17: every enemy-sourced projectile hit that takes player hp down also  *)
(* marks that projectile for removal (it is gone from World.projectiles    *)
(* after the call) and marks the damage cooldown at the time of the hit,   *)
(* the hit that takes hp from 1 to 0 included.                             *)
C17_HitRemovesAndMarks ==
    AfterUpdateProjectiles =>
        \A n \in 1..Len(log.hitlog) :
            LET h == log.hitlog[n]
            IN  (h.kind = "player" /\ h.hp1 < h.hp0) =>
                  /\ h.pushed
                  /\ h.marked
                  /\ \E m \in 1..Len(log.to_remove) : log.to_remove[m] = h.proj
                  /\ player.hp_cd.last_emit = h.t

(* The closed intervals [a - wa/2, a + wa/2] and [b - wb/2, b + wb/2]      *)
(* intersect; both sides doubled.                                          *)
IntervalsIntersect(a, wa, b, wb) ==
    2 * a - wa <= 2 * b + wb /\ 2 * b - wb <= 2 * a + wa

(* C18: collide_rectangle is true exactly when the closed x-intervals of   *)
(* the two centred boxes intersect and their closed y-intervals intersect, *)
(* also when the second box is strictly larger than the first on an axis.  *)
C18_CollideIsIntersection ==
    col.set =>
        (col.ab <=>
            /\ IntervalsIntersect(col.pos_a.x, col.size_a.w,
                                  col.pos_b.x, col.size_b.w)
            /\ IntervalsIntersect(col.pos_a.y, col.size_a.h,
                                  col.pos_b.y, col.size_b.h))

(* The ids of the transitions from index i on that did not end OffScreen. *)
RECURSIVE Staying(_, _)
Staying(trans, i) ==
    IF i > Len(trans) THEN <<>>
    ELSE IF trans[i].to = "OffScreen" THEN Staying(trans, i + 1)
    ELSE <<trans[i].id>> \o Staying(trans, i + 1)

(* C19: after every update_entities no enemy of World.enemies is OffScreen *)
(* (the enemies that became OffScreen in the call, and only those, are     *)
(* removed, the others keep their order), and after every                  *)
(* update_projectiles no enemy of World.enemies has hp <= 0.               *)
C19_NoLingeringEnemies ==
    /\ AfterUpdateEntities =>
          /\ \A m \in 1..Len(enemies) : enemies[m].state # "OffScreen"
          /\ Ids(enemies) = Staying(log.trans, 1)
          /\ Len(log.trans) = Len(log.enemies0)
          /\ \A k \in 1..Len(log.trans) : log.trans[k].id = log.enemies0[k]
    /\ AfterUpdateProjectiles =>
          \A m \in 1..Len(enemies) : enemies[m].hp > 0

(* Two enemies became OffScreen in one call, with an enemy between or      *)
(* after them that stays.                                                  *)
C19_Witness ==
    /\ AfterUpdateEntities
    /\ \E k1, k2, k3 \in 1..Len(log.trans) :
          /\ k1 < k2
          /\ k1 < k3
          /\ log.trans[k1].to = "OffScreen"
          /\ log.trans[k2].to = "OffScreen"
          /\ log.trans[k3].to # "OffScreen"

(* Every event of the level has fired. *)
AllFired == \A id \in EventIds(TheLevel.evts) : HasFired(id)

(* Every enemy of the level has been OnScreen and is not in World.enemies. *)
AllLeft ==
    \A id \in DOMAIN seen :
        /\ \E k \in 1..Len(seen[id]) : seen[id][k] = "OnScreen"
        /\ \A m \in 1..Len(enemies) : enemies[m].id # id

(* An enemy is NotSpawned at or below the bottom edge: it only moves down   *)
(* from there, so it is never inside the bounds at a later test.           *)
Tunnelled ==
    \E m \in 1..Len(enemies) :
        /\ enemies[m].state = "NotSpawned"
        /\ enemies[m].pos.y >= bottom_excluded(rect)

(* Once an enemy has tunnelled, one stays tunnelled. *)
TunnelledForGood == [][Tunnelled => Tunnelled']_vars

====
